---- MODULE Spec2Model ----
(***************************************************************************)
(* AgHashTable (src/src/AgHashTable.h, src/src/AgHashTable_iter.h):        *)
(* a hash set whose buckets hold a list of aggregate nodes (one per        *)
(* distinct hash value), each owning a list of key nodes.                  *)
(*                                                                         *)
(* Linked lists are sequences, a null pointer is the empty sequence or     *)
(* index 0.  The table is instantiated with an 8 bit hash type (as mod2    *)
(* of tests/test.cpp) and integer keys hashed by their absolute value.     *)
(***************************************************************************)
EXTENDS Integers, Sequences, FiniteSets, TLC

(***************************************************************************)
(* Program constants (AgHashTable.h:129-136, 251)                          *)
(***************************************************************************)
sHashBitness == 8
sNumDistinctAllowed == 1
sNumKeysAllowed == 16
sResizeFactor == 8
DefaultBucketCount == 64

RECURSIVE Pow2(_)
Pow2(n) == IF n = 0 THEN 1 ELSE 2 * Pow2(n - 1)

sMaxBucketsAllowed == Pow2(IF sHashBitness > 24 THEN 24 ELSE sHashBitness)

HashModulus == Pow2(sHashBitness)

(***************************************************************************)
(* Bounds of the model                                                     *)
(***************************************************************************)
MaxFree == 1        \* free keys are 0 .. MaxFree
NumBulk == 16       \* number of keys that all share the hash BulkHash
MaxSpin == 2        \* iterations of begin()'s probe loop that are counted
MaxAbsentErase == 2 \* a bulk key that is not stored is erased only while at
                    \* most this many bulk keys are stored
MaxHintLog == 9     \* bucket-count arguments of the constructor are
                    \* 2^0 .. 2^MaxHintLog
MaxEdgeBulk == 17   \* keys of one hash a table of SpecEdge is filled with
NumThreads == 2     \* threads that use one table in concurrent mode
MaxConcOps == 3     \* calls the second thread makes while the first one
                    \* inserts the bulk keys

\* the hash shared by the bulk keys: it falls into bucket 0 together with
\* hash 0 while the table has 1 or sResizeFactor buckets
BulkHash == sResizeFactor

BulkKey(i) == BulkHash + i * HashModulus

FreeKeys == 0 .. MaxFree
BulkKeys == { BulkKey(i) : i \in 1 .. NumBulk }
Keys == FreeKeys \cup BulkKeys

\* bucket counts a table is constructed with: the hint 1 and the default
InitBucketCounts == {1, DefaultBucketCount}

(***************************************************************************)
(* Hash function, equality, masking                                        *)
(***************************************************************************)
Abs(x) == IF x < 0 THEN 0 - x ELSE x

\* the hash function: |key| truncated to hash_t
tHashFunc(k) == Abs(k) % HashModulus

tEquals(a, b) == a = b

RECURSIVE BitAnd(_, _)
BitAnd(a, b) ==
    IF a = 0 \/ b = 0 THEN 0
    ELSE (a % 2) * (b % 2) + 2 * BitAnd(a \div 2, b \div 2)

\* keyHash & (bucketCount - 1)
BucketOf(h, bucketCount) == BitAnd(h, bucketCount - 1)

EmptyBucket == [keyCount |-> 0, distinctHashCount |-> 0, hashListHead |-> <<>>]

NewBucketArray(n) == [b \in 0 .. (n - 1) |-> EmptyBucket]

\* mBucketArray == nullptr
NullArray == <<>>

\* mLocks: the member does not exist in a build without concurrent mode
NoLocks == [state |-> "absent", count |-> 0, exclusive |-> {}, shared |-> {}]

\* mLocks == nullptr
NullLocks == [state |-> "null", count |-> 0, exclusive |-> {}, shared |-> {}]

\* new std::shared_mutex[n]: n locks, none of them held. exclusive and shared
\* are the <<lock, thread>> pairs of the locks held in either mode
NewLockArray(n) == [state |-> "array", count |-> n, exclusive |-> {}, shared |-> {}]

(***************************************************************************)
(* Sequence helpers                                                        *)
(***************************************************************************)
RemoveAt(s, i) == [j \in 1 .. (Len(s) - 1) |-> IF j < i THEN s[j] ELSE s[j + 1]]

\* sum of the keyCount fields of a list of aggregate nodes
RECURSIVE SumKeyCount(_)
SumKeyCount(s) == IF s = <<>> THEN 0 ELSE Head(s).keyCount + SumKeyCount(Tail(s))

VARIABLES
    mBucketArray,   \* bucket id -> bucket
    mLocks,         \* the lock array of a build in concurrent mode
    mBucketCount,
    mKeyCount,
    mAggregateCnt,
    it,             \* the client's iterator
    spins,          \* iterations begin()'s probe loop has made without result
    yielded,        \* keys dereferenced by the running traversal
    live,           \* keys whose insert returned true and no erase returned true since
    last,           \* the last call and what it returned
    threads         \* thread -> the call it is executing, in concurrent mode

vars == <<mBucketArray, mLocks, mBucketCount, mKeyCount, mAggregateCnt, it, spins, yielded, live, last,
          threads>>

Threads == 1 .. NumThreads

\* a thread outside every call of the table
IdleThread == [pc |-> "idle", op |-> "none", key |-> 0, bucketCount |-> 0, bucketId |-> 0,
               aggr |-> 0, len |-> 0, loaded |-> 0, ops |-> 0, ret |-> FALSE]

tableVars == <<mBucketArray, mLocks, mBucketCount, mKeyCount, mAggregateCnt>>

(***************************************************************************)
(* Lookup                                                                  *)
(***************************************************************************)
\* index of the first aggregate node of a bucket's list with hash h, 0 if none
AggrIndex(hashList, h) ==
    IF \E i \in 1 .. Len(hashList) : hashList[i].keyHash = h
    THEN CHOOSE i \in 1 .. Len(hashList) :
            /\ hashList[i].keyHash = h
            /\ \A j \in 1 .. (i - 1) : hashList[j].keyHash # h
    ELSE 0

\* index of the first node of a key list that is equal to pKey, 0 if none
NodeIndex(nodeList, pKey) ==
    IF \E i \in 1 .. Len(nodeList) : tEquals(pKey, nodeList[i])
    THEN CHOOSE i \in 1 .. Len(nodeList) :
            /\ tEquals(pKey, nodeList[i])
            /\ \A j \in 1 .. (i - 1) : ~tEquals(pKey, nodeList[j])
    ELSE 0

exists_util(pKey, nodeList) == \E i \in 1 .. Len(nodeList) : tEquals(pKey, nodeList[i])

ExistsIn(arr, bucketCount, pKey) ==
    LET keyHash  == tHashFunc(pKey)
        bucketId == BucketOf(keyHash, bucketCount)
        hashList == arr[bucketId].hashListHead
        i        == AggrIndex(hashList, keyHash)
    IN  IF i = 0 THEN FALSE ELSE exists_util(pKey, hashList[i].nodePtr)

exists(pKey) == ExistsIn(mBucketArray, mBucketCount, pKey)

size == mKeyCount

(***************************************************************************)
(* What the table holds, read off the structure                            *)
(***************************************************************************)
BucketIds == 0 .. (mBucketCount - 1)

\* the key nodes of the table as <<bucket, aggregate index, node index>>
NodesOf(arr, bucketCount) ==
    UNION { UNION { { <<b, a, n>> : n \in 1 .. Len(arr[b].hashListHead[a].nodePtr) } :
                    a \in 1 .. Len(arr[b].hashListHead) } :
            b \in 0 .. (bucketCount - 1) }

KeyNodes == NodesOf(mBucketArray, mBucketCount)

KeyAt(p) == mBucketArray[p[1]].hashListHead[p[2]].nodePtr[p[3]]

StoredIn(arr, bucketCount) ==
    { arr[p[1]].hashListHead[p[2]].nodePtr[p[3]] : p \in NodesOf(arr, bucketCount) }

StoredKeys == StoredIn(mBucketArray, mBucketCount)

(***************************************************************************)
(* insert_util / erase_util: the key list of one aggregate node            *)
(***************************************************************************)
\* insert_util without the search for an equal key
insert_util_NoDuplicateCheck(pKey, nodeList, nodeAllocOk) ==
    IF ~nodeAllocOk
    THEN [ret |-> FALSE, nodePtr |-> nodeList, allocFail |-> TRUE]
    ELSE [ret |-> TRUE, nodePtr |-> Append(nodeList, pKey), allocFail |-> FALSE]

\* appends pKey unless an equal key is in the list or the node allocation fails
insert_util(pKey, nodeList, nodeAllocOk) ==
    IF \E i \in 1 .. Len(nodeList) : tEquals(pKey, nodeList[i])
    THEN [ret |-> FALSE, nodePtr |-> nodeList, allocFail |-> FALSE]
    ELSE IF ~nodeAllocOk
         THEN [ret |-> FALSE, nodePtr |-> nodeList, allocFail |-> TRUE]
         ELSE [ret |-> TRUE, nodePtr |-> Append(nodeList, pKey), allocFail |-> FALSE]

\* unlinks the first node equal to pKey; when the loop ends without a match
\* the function returns true
erase_util(pKey, nodeList) ==
    LET i == NodeIndex(nodeList, pKey)
    IN  IF i # 0
        THEN [ret |-> TRUE, nodePtr |-> RemoveAt(nodeList, i)]
        ELSE [ret |-> TRUE, nodePtr |-> nodeList]

(***************************************************************************)
(* resize                                                                  *)
(***************************************************************************)
\* the position computed with the old bucket count
NewPosition_OldMask(aggr, pNumBuckets) == BucketOf(aggr.keyHash, pNumBuckets \div sResizeFactor)

\* the bucket an aggregate node is moved to
NewPosition(aggr, pNumBuckets) == BucketOf(aggr.keyHash, pNumBuckets)

\* the aggregate nodes of buckets from..(bucketCount - 1), in the order the
\* two nested loops of resize visit them
RECURSIVE AggrsFrom(_, _, _)
AggrsFrom(arr, from, bucketCount) ==
    IF from >= bucketCount THEN <<>>
    ELSE arr[from].hashListHead \o AggrsFrom(arr, from + 1, bucketCount)

\* MoveAggr that counts one key per aggregate node moved
MoveAggr_CountsOne(newArray, aggr, pNumBuckets) ==
    LET newPosition == BucketOf(aggr.keyHash, pNumBuckets)
        b           == newArray[newPosition]
    IN  [newArray EXCEPT ![newPosition] =
            [keyCount          |-> b.keyCount + 1,
             distinctHashCount |-> b.distinctHashCount + 1,
             hashListHead      |-> Append(b.hashListHead, aggr)]]

\* every aggregate node is moved to the first bucket of the new array
MoveAggr_ToFirstBucket(newArray, aggr, pNumBuckets) ==
    LET newPosition == 0
        b           == newArray[newPosition]
    IN  [newArray EXCEPT ![newPosition] =
            [keyCount          |-> b.keyCount + aggr.keyCount,
             distinctHashCount |-> b.distinctHashCount + 1,
             hashListHead      |-> Append(b.hashListHead, aggr)]]

\* one iteration of the inner loop: the node goes to the end of its new bucket
MoveAggr(newArray, aggr, pNumBuckets) ==
    LET newPosition == NewPosition(aggr, pNumBuckets)
        b           == newArray[newPosition]
    IN  [newArray EXCEPT ![newPosition] =
            [keyCount          |-> b.keyCount + aggr.keyCount,
             distinctHashCount |-> b.distinctHashCount + 1,
             hashListHead      |-> Append(b.hashListHead, aggr)]]

RECURSIVE MoveAll(_, _, _)
MoveAll(newArray, aggrs, pNumBuckets) ==
    IF aggrs = <<>> THEN newArray
    ELSE MoveAll(MoveAggr(newArray, Head(aggrs), pNumBuckets), Tail(aggrs), pNumBuckets)

\* the old array is given up before the allocation of the new one is checked
resize_DropsOldArray(arr, bucketCount, pNumBuckets, arrayAllocOk) ==
    IF ~arrayAllocOk
    THEN [ret |-> FALSE, arr |-> NewBucketArray(bucketCount), bucketCount |-> bucketCount]
    ELSE [ret |-> TRUE,
          arr |-> MoveAll(NewBucketArray(pNumBuckets), AggrsFrom(arr, 0, bucketCount), pNumBuckets),
          bucketCount |-> pNumBuckets]

\* resize: the new array, or the old one when the allocation fails
resize(arr, bucketCount, pNumBuckets, arrayAllocOk) ==
    IF ~arrayAllocOk
    THEN [ret |-> FALSE, arr |-> arr, bucketCount |-> bucketCount]
    ELSE [ret |-> TRUE,
          arr |-> MoveAll(NewBucketArray(pNumBuckets), AggrsFrom(arr, 0, bucketCount), pNumBuckets),
          bucketCount |-> pNumBuckets]

\* the number of distinct hashes in the bucket is not looked at
ResizeWanted_IgnoresDistinct(bucket, bucketCount) ==
    /\ bucket.keyCount > sNumKeysAllowed
    /\ bucketCount * sResizeFactor < sMaxBucketsAllowed

\* the condition under which insert calls resize
ResizeWanted(bucket, bucketCount) ==
    /\ bucket.distinctHashCount > sNumDistinctAllowed
    /\ bucket.keyCount > sNumKeysAllowed
    /\ bucketCount * sResizeFactor < sMaxBucketsAllowed

\* the table grows by a factor that is not a power of two
ResizeAfterInsert_GrowsBySix(arr, bucketCount, bucketId, arrayAllocOk) ==
    IF ResizeWanted(arr[bucketId], bucketCount)
    THEN LET r == resize(arr, bucketCount, bucketCount * (sResizeFactor - 2), arrayAllocOk)
         IN  [arr |-> r.arr, bucketCount |-> r.bucketCount,
              resized |-> IF r.ret THEN "ok" ELSE "failed"]
    ELSE [arr |-> arr, bucketCount |-> bucketCount, resized |-> "none"]

\* the factor is applied twice
ResizeAfterInsert_GrowsTwice(arr, bucketCount, bucketId, arrayAllocOk) ==
    IF ResizeWanted(arr[bucketId], bucketCount)
    THEN LET r == resize(arr, bucketCount, bucketCount * sResizeFactor * sResizeFactor, arrayAllocOk)
         IN  [arr |-> r.arr, bucketCount |-> r.bucketCount,
              resized |-> IF r.ret THEN "ok" ELSE "failed"]
    ELSE [arr |-> arr, bucketCount |-> bucketCount, resized |-> "none"]

\* the resize check that follows a successful insert into bucket bucketId
ResizeAfterInsert(arr, bucketCount, bucketId, arrayAllocOk) ==
    IF ResizeWanted(arr[bucketId], bucketCount)
    THEN LET r == resize(arr, bucketCount, bucketCount * sResizeFactor, arrayAllocOk)
         IN  [arr |-> r.arr, bucketCount |-> r.bucketCount,
              resized |-> IF r.ret THEN "ok" ELSE "failed"]
    ELSE [arr |-> arr, bucketCount |-> bucketCount, resized |-> "none"]

(***************************************************************************)
(* insert                                                                  *)
(***************************************************************************)
\* result of a call that leaves the table as it is
InsertFailed(arr, bucketCount, keyCount, aggCnt, failed) ==
    [ret |-> FALSE, arr |-> arr, bucketCount |-> bucketCount, keyCount |-> keyCount,
     aggCnt |-> aggCnt, allocFail |-> failed, resized |-> "none",
     preKeys |-> {}, preSize |-> 0]

\* result of a call that stored the key: arr1 is the array with the key linked
\* and the bucket and aggregate counters raised
InsertDone(arr1, bucketCount, keyCount1, aggCnt1, bucketId, arrayAllocOk) ==
    LET r == ResizeAfterInsert(arr1, bucketCount, bucketId, arrayAllocOk)
    IN  [ret |-> TRUE, arr |-> r.arr, bucketCount |-> r.bucketCount, keyCount |-> keyCount1,
         aggCnt |-> aggCnt1,
         allocFail |-> IF r.resized = "failed" THEN "array" ELSE "none",
         resized |-> r.resized,
         preKeys |-> IF r.resized = "none" THEN {} ELSE StoredIn(arr1, bucketCount),
         preSize |-> IF r.resized = "none" THEN 0 ELSE keyCount1]

\* InsertExistingAggr that raises the table's key count whatever insert_util returns
InsertExistingAggr_CountsAlways(arr, bucketCount, keyCount, aggCnt, pKey, bucketId, i, nodeAllocOk, arrayAllocOk) ==
    LET bucket == arr[bucketId]
        aggr   == bucket.hashListHead[i]
        u      == insert_util(pKey, aggr.nodePtr, nodeAllocOk)
        aggr1  == [aggr EXCEPT !.nodePtr = u.nodePtr, !.keyCount = aggr.keyCount + 1]
        arr1   == [arr EXCEPT ![bucketId] =
                      [bucket EXCEPT !.hashListHead = [bucket.hashListHead EXCEPT ![i] = aggr1],
                                     !.keyCount = bucket.keyCount + 1]]
    IN  IF u.ret
        THEN InsertDone(arr1, bucketCount, keyCount + 1, aggCnt, bucketId, arrayAllocOk)
        ELSE InsertFailed(arr, bucketCount, keyCount + 1, aggCnt,
                          IF u.allocFail THEN "node" ELSE "none")

\* InsertExistingAggr that raises the bucket's distinctHashCount as for a new aggregate node
InsertExistingAggr_CountsDistinct(arr, bucketCount, keyCount, aggCnt, pKey, bucketId, i, nodeAllocOk, arrayAllocOk) ==
    LET bucket == arr[bucketId]
        aggr   == bucket.hashListHead[i]
        u      == insert_util(pKey, aggr.nodePtr, nodeAllocOk)
        aggr1  == [aggr EXCEPT !.nodePtr = u.nodePtr, !.keyCount = aggr.keyCount + 1]
        arr1   == [arr EXCEPT ![bucketId] =
                      [bucket EXCEPT !.hashListHead = [bucket.hashListHead EXCEPT ![i] = aggr1],
                                     !.keyCount = bucket.keyCount + 1,
                                     !.distinctHashCount = bucket.distinctHashCount + 1]]
    IN  IF u.ret
        THEN InsertDone(arr1, bucketCount, keyCount + 1, aggCnt, bucketId, arrayAllocOk)
        ELSE InsertFailed(arr, bucketCount, keyCount, aggCnt,
                          IF u.allocFail THEN "node" ELSE "none")

\* the hash of pKey has an aggregate node, at index i of the bucket's list
InsertExistingAggr(arr, bucketCount, keyCount, aggCnt, pKey, bucketId, i, nodeAllocOk, arrayAllocOk) ==
    LET bucket == arr[bucketId]
        aggr   == bucket.hashListHead[i]
        u      == insert_util(pKey, aggr.nodePtr, nodeAllocOk)
        aggr1  == [aggr EXCEPT !.nodePtr = u.nodePtr, !.keyCount = aggr.keyCount + 1]
        arr1   == [arr EXCEPT ![bucketId] =
                      [bucket EXCEPT !.hashListHead = [bucket.hashListHead EXCEPT ![i] = aggr1],
                                     !.keyCount = bucket.keyCount + 1]]
    IN  IF u.ret
        THEN InsertDone(arr1, bucketCount, keyCount + 1, aggCnt, bucketId, arrayAllocOk)
        ELSE InsertFailed(arr, bucketCount, keyCount, aggCnt,
                          IF u.allocFail THEN "node" ELSE "none")

\* (*aggrElem) = newAggr: the new aggregate node, with no key node yet, goes
\* to the end of the bucket's list
LinkNewAggr(arr, bucketId, keyHash) ==
    [arr EXCEPT ![bucketId].hashListHead =
        Append(@, [keyCount |-> 0, keyHash |-> keyHash, nodePtr |-> <<>>])]

\* the new aggregate node stays linked when insert_util fails
UnlinkNewAggr_Forgotten(arr, bucketId) == arr

\* the aggregate node linked last is unlinked and deleted again
UnlinkNewAggr(arr, bucketId) ==
    [arr EXCEPT ![bucketId].hashListHead = RemoveAt(@, Len(@))]

\* the hash of pKey has no aggregate node: a new one goes to the end of the list
InsertNewAggr(arr, bucketCount, keyCount, aggCnt, pKey, bucketId, aggrAllocOk, nodeAllocOk, arrayAllocOk) ==
    LET keyHash == tHashFunc(pKey)
        linked  == LinkNewAggr(arr, bucketId, keyHash)
        bucket  == linked[bucketId]
        n       == Len(bucket.hashListHead)
        newAggr == bucket.hashListHead[n]
        u       == insert_util(pKey, newAggr.nodePtr, nodeAllocOk)
        aggr1   == [newAggr EXCEPT !.nodePtr = u.nodePtr, !.keyCount = newAggr.keyCount + 1]
        arr1    == [linked EXCEPT ![bucketId] =
                      [keyCount          |-> bucket.keyCount + 1,
                       distinctHashCount |-> bucket.distinctHashCount + 1,
                       hashListHead      |-> [bucket.hashListHead EXCEPT ![n] = aggr1]]]
    IN  IF ~aggrAllocOk
        THEN InsertFailed(arr, bucketCount, keyCount, aggCnt, "aggr")
        ELSE IF u.ret
             THEN InsertDone(arr1, bucketCount, keyCount + 1, aggCnt + 1, bucketId, arrayAllocOk)
             ELSE InsertFailed(UnlinkNewAggr(linked, bucketId), bucketCount, keyCount, aggCnt,
                               IF u.allocFail THEN "node" ELSE "none")

\* only the first aggregate node of the bucket is compared with the key's hash
insert_ComparesFirstAggrOnly(arr, bucketCount, keyCount, aggCnt, pKey, aggrAllocOk, nodeAllocOk, arrayAllocOk) ==
    LET keyHash  == tHashFunc(pKey)
        bucketId == BucketOf(keyHash, bucketCount)
        list     == arr[bucketId].hashListHead
        i        == IF list # <<>> /\ list[1].keyHash = keyHash THEN 1 ELSE 0
    IN  IF i # 0
        THEN InsertExistingAggr(arr, bucketCount, keyCount, aggCnt, pKey, bucketId, i,
                                nodeAllocOk, arrayAllocOk)
        ELSE InsertNewAggr(arr, bucketCount, keyCount, aggCnt, pKey, bucketId,
                           aggrAllocOk, nodeAllocOk, arrayAllocOk)

insert(arr, bucketCount, keyCount, aggCnt, pKey, aggrAllocOk, nodeAllocOk, arrayAllocOk) ==
    LET keyHash  == tHashFunc(pKey)
        bucketId == BucketOf(keyHash, bucketCount)
        i        == AggrIndex(arr[bucketId].hashListHead, keyHash)
    IN  IF i # 0
        THEN InsertExistingAggr(arr, bucketCount, keyCount, aggCnt, pKey, bucketId, i,
                                nodeAllocOk, arrayAllocOk)
        ELSE InsertNewAggr(arr, bucketCount, keyCount, aggCnt, pKey, bucketId,
                           aggrAllocOk, nodeAllocOk, arrayAllocOk)

(***************************************************************************)
(* erase                                                                   *)
(***************************************************************************)
\* the aggregate node is unlinked without --distinctHashCount
EraseFromAggr_KeepsDistinctCount(bucket, i, nodeList) ==
    LET aggr  == bucket.hashListHead[i]
        aggr1 == [aggr EXCEPT !.nodePtr = nodeList, !.keyCount = aggr.keyCount - 1]
    IN  IF aggr1.keyCount = 0
        THEN [keyCount          |-> bucket.keyCount - 1,
              distinctHashCount |-> bucket.distinctHashCount,
              hashListHead      |-> RemoveAt(bucket.hashListHead, i)]
        ELSE [bucket EXCEPT !.keyCount = bucket.keyCount - 1,
                            !.hashListHead = [bucket.hashListHead EXCEPT ![i] = aggr1]]

\* an aggregate node whose key count reached 0 stays linked
EraseFromAggr_KeepsEmptyAggr(bucket, i, nodeList) ==
    LET aggr  == bucket.hashListHead[i]
        aggr1 == [aggr EXCEPT !.nodePtr = nodeList, !.keyCount = aggr.keyCount - 1]
    IN  [bucket EXCEPT !.keyCount = bucket.keyCount - 1,
                       !.hashListHead = [bucket.hashListHead EXCEPT ![i] = aggr1]]

\* the bucket after erase_util reported success on the aggregate node at index i
EraseFromAggr(bucket, i, nodeList) ==
    LET aggr  == bucket.hashListHead[i]
        aggr1 == [aggr EXCEPT !.nodePtr = nodeList, !.keyCount = aggr.keyCount - 1]
    IN  IF aggr1.keyCount = 0
        \* the aggregate node is unlinked and deleted, with the key list it owns
        THEN [keyCount          |-> bucket.keyCount - 1,
              distinctHashCount |-> bucket.distinctHashCount - 1,
              hashListHead      |-> RemoveAt(bucket.hashListHead, i)]
        ELSE [bucket EXCEPT !.keyCount = bucket.keyCount - 1,
                            !.hashListHead = [bucket.hashListHead EXCEPT ![i] = aggr1]]

\* erase without --mKeyCount
erase_KeepsKeyCount(arr, keyCount, aggCnt, bucketCount, pKey) ==
    LET keyHash  == tHashFunc(pKey)
        bucketId == BucketOf(keyHash, bucketCount)
        bucket   == arr[bucketId]
        i        == AggrIndex(bucket.hashListHead, keyHash)
        u        == erase_util(pKey, bucket.hashListHead[i].nodePtr)
        bucket1  == EraseFromAggr(bucket, i, u.nodePtr)
    IN  IF i = 0 \/ ~u.ret
        THEN [ret |-> FALSE, arr |-> arr, keyCount |-> keyCount, aggCnt |-> aggCnt]
        ELSE [ret |-> TRUE, arr |-> [arr EXCEPT ![bucketId] = bucket1],
              keyCount |-> keyCount,
              aggCnt |-> aggCnt - (bucket.distinctHashCount - bucket1.distinctHashCount)]

erase(arr, keyCount, aggCnt, bucketCount, pKey) ==
    LET keyHash  == tHashFunc(pKey)
        bucketId == BucketOf(keyHash, bucketCount)
        bucket   == arr[bucketId]
        i        == AggrIndex(bucket.hashListHead, keyHash)
        u        == erase_util(pKey, bucket.hashListHead[i].nodePtr)
        bucket1  == EraseFromAggr(bucket, i, u.nodePtr)
    IN  IF i = 0 \/ ~u.ret
        THEN [ret |-> FALSE, arr |-> arr, keyCount |-> keyCount, aggCnt |-> aggCnt]
        ELSE [ret |-> TRUE, arr |-> [arr EXCEPT ![bucketId] = bucket1],
              keyCount |-> keyCount - 1,
              aggCnt |-> aggCnt - (bucket.distinctHashCount - bucket1.distinctHashCount)]

(***************************************************************************)
(* Iterators.  An aggregate node pointer is <<bucket, index in the list>>, *)
(* a node pointer the index in the aggregate's key list; a is 0 for null.  *)
(***************************************************************************)
NullAggr == [b |-> 0, a |-> 0]

getHashAggr(pKeyHash) ==
    LET bucketId == BucketOf(pKeyHash, mBucketCount)
        i        == AggrIndex(mBucketArray[bucketId].hashListHead, pKeyHash)
    IN  IF i = 0 THEN NullAggr ELSE [b |-> bucketId, a |-> i]

AggrAt(p) == mBucketArray[p.b].hashListHead[p.a]

NoIterator  == [state |-> "none", b |-> 0, a |-> 0, n |-> 0]
EndIterator == [state |-> "end", b |-> 0, a |-> 0, n |-> 0]
\* the thread is inside begin(), in its probe loop
InBegin     == [state |-> "begin", b |-> 0, a |-> 0, n |-> 0]

\* iterator {aggrPtr->nodePtr, aggrPtr, this}
IteratorAt(p) ==
    IF AggrAt(p).nodePtr = <<>> THEN EndIterator
    ELSE [state |-> "at", b |-> p.b, a |-> p.a, n |-> 1]

\* the first node of the aggregate node is returned without comparing its key
find_util_FirstNode(pKey, pAggrPtr) == IteratorAt(pAggrPtr)

\* iterator {pListElem, pAggrPtr, this} at the first node equal to pKey, else end ()
find_util(pKey, pAggrPtr) ==
    LET n == NodeIndex(AggrAt(pAggrPtr).nodePtr, pKey)
    IN  IF n = 0 THEN EndIterator
        ELSE [state |-> "at", b |-> pAggrPtr.b, a |-> pAggrPtr.a, n |-> n]

find(pKey) ==
    LET keyHash  == tHashFunc(pKey)
        bucketId == BucketOf(keyHash, mBucketCount)
        i        == AggrIndex(mBucketArray[bucketId].hashListHead, keyHash)
    IN  IF i = 0 THEN EndIterator ELSE find_util(pKey, [b |-> bucketId, a |-> i])

\* operator*
Deref(i) == mBucketArray[i.b].hashListHead[i.a].nodePtr[i.n]

\* the hash begin() probes in every iteration of its loop
BeginProbeHash(iteration) == 0

\* one iteration of begin()'s loop
BeginLoopBody(iteration) ==
    LET aggrPtr == getHashAggr(BeginProbeHash(iteration))
    IN  IF aggrPtr # NullAggr THEN IteratorAt(aggrPtr)
        ELSE IF mKeyCount = 0 THEN EndIterator
        ELSE InBegin

\* the search starts again at hash 0 and skips only the current hash, instead
\* of counting up from hash + 1
NextHashAggr_FromZero(hash) ==
    LET present == { newHash \in (0 .. (HashModulus - 1)) \ {hash} : getHashAggr(newHash) # NullAggr }
    IN  IF present = {} THEN NullAggr
        ELSE getHashAggr(CHOOSE newHash \in present : \A other \in present : newHash <= other)

\* the loop of operator++ that looks for the next hash present in the table:
\* newHash counts up from hash + 1 and the loop ends at the first value that
\* has an aggregate node, or when ++newHash wraps to 0
NextHashAggr(hash) ==
    LET present == { newHash \in (hash + 1) .. (HashModulus - 1) : getHashAggr(newHash) # NullAggr }
    IN  IF present = {} THEN NullAggr
        ELSE getHashAggr(CHOOSE newHash \in present : \A other \in present : newHash <= other)

\* after the last key node of an aggregate node the iterator is end ()
Increment_EndsAfterAggregate(i) ==
    IF i.state # "at" THEN i
    ELSE IF i.n < Len(AggrAt(i).nodePtr) THEN [i EXCEPT !.n = i.n + 1]
    ELSE EndIterator

\* operator++
Increment(i) ==
    IF i.state # "at" THEN i
    ELSE IF i.n < Len(AggrAt(i).nodePtr) THEN [i EXCEPT !.n = i.n + 1]
    ELSE LET newAggrPtr == NextHashAggr(AggrAt(i).keyHash)
         IN  IF newAggrPtr = NullAggr THEN EndIterator ELSE IteratorAt(newAggrPtr)

(***************************************************************************)
(* The environment: free keys are used in any order, the bulk keys (which  *)
(* all share one hash) are inserted in ascending and erased in descending  *)
(* order, so that a bucket can fill up to the resize threshold.            *)
(***************************************************************************)
NumBulkStored == Cardinality(StoredKeys \cap BulkKeys)

InsertKeys == FreeKeys \cup { BulkKey(i) : i \in {NumBulkStored, NumBulkStored + 1} \cap (1 .. NumBulk) }

EraseKeys ==
    FreeKeys \cup { BulkKey(i) : i \in {NumBulkStored} \cap (1 .. NumBulk) }
             \cup { BulkKey(i) : i \in {j \in {NumBulkStored + 1} : NumBulkStored <= MaxAbsentErase}
                                         \cap (1 .. NumBulk) }

\* new (std::nothrow) of an aggregate node, a key node or a bucket array
AllocFailures == {"none", "aggr", "node", "array"}

\* last.afterInsert of an erase (key): the insert (key) that was the call
\* right before it, if there was one
NoInsert == [op |-> "none", ret |-> FALSE, allocFail |-> "none", sizeBefore |-> 0,
             wasStored |-> FALSE, resized |-> "none"]

NoCall == [op |-> "none", key |-> 0, ret |-> FALSE, allocFail |-> "none", sizeBefore |-> 0,
           wasStored |-> FALSE, resized |-> "none", preKeys |-> {}, preSize |-> 0,
           afterInsert |-> NoInsert]

(***************************************************************************)
(* State machine                                                           *)
(***************************************************************************)
\* init (): both allocations are attempted, whatever the outcome of the first
init(bucketCount, concurrentMode, arrayAllocOk, locksAllocOk) ==
    [arr   |-> IF arrayAllocOk THEN NewBucketArray(bucketCount) ELSE NullArray,
     locks |-> IF ~concurrentMode THEN NoLocks
               ELSE IF locksAllocOk THEN NewLockArray(bucketCount) ELSE NullLocks]

\* the lock array is left out of the check
initialized_IgnoresLocks == mBucketArray # NullArray

initialized ==
    IF mBucketArray = NullArray THEN FALSE
    ELSE IF mLocks # NoLocks /\ mLocks = NullLocks THEN FALSE
    ELSE TRUE

get_bucket_count == mBucketCount

get_max_bucket_count == sMaxBucketsAllowed

\* the number of aggregate nodes, counted in a build with AG_DBG_MODE
get_aggregate_count == mAggregateCnt

get_bucket_of_key(pKey) == BucketOf(tHashFunc(pKey), mBucketCount)

Init ==
    /\ mBucketCount \in InitBucketCounts
    /\ mBucketArray = init(mBucketCount, FALSE, TRUE, TRUE).arr
    /\ mLocks = init(mBucketCount, FALSE, TRUE, TRUE).locks
    /\ mKeyCount = 0
    /\ mAggregateCnt = 0
    /\ it = NoIterator
    /\ spins = 0
    /\ yielded = <<>>
    /\ live = {}
    /\ last = NoCall
    /\ threads = [t \in Threads |-> IdleThread]

\* failing: the allocation that returns nullptr if the call makes it
Insert(pKey, failing) ==
    LET r == insert(mBucketArray, mBucketCount, mKeyCount, mAggregateCnt, pKey,
                    failing # "aggr", failing # "node", failing # "array")
    IN  /\ it.state # "begin"
        /\ mBucketArray' = r.arr
        /\ mBucketCount' = r.bucketCount
        /\ mKeyCount' = r.keyCount
        /\ mAggregateCnt' = r.aggCnt
        /\ live' = IF r.ret THEN live \cup {pKey} ELSE live
        /\ last' = [op |-> "insert", key |-> pKey, ret |-> r.ret, allocFail |-> r.allocFail,
                    sizeBefore |-> mKeyCount, wasStored |-> pKey \in StoredKeys,
                    resized |-> r.resized, preKeys |-> r.preKeys, preSize |-> r.preSize,
                    afterInsert |-> NoInsert]
        /\ it' = NoIterator
        /\ spins' = 0
        /\ yielded' = <<>>
        /\ UNCHANGED <<mLocks, threads>>

Erase(pKey) ==
    LET r == erase(mBucketArray, mKeyCount, mAggregateCnt, mBucketCount, pKey)
    IN  /\ it.state # "begin"
        /\ mBucketArray' = r.arr
        /\ mKeyCount' = r.keyCount
        /\ mAggregateCnt' = r.aggCnt
        /\ live' = IF r.ret THEN live \ {pKey} ELSE live
        /\ last' = [op |-> "erase", key |-> pKey, ret |-> r.ret, allocFail |-> "none",
                    sizeBefore |-> mKeyCount, wasStored |-> pKey \in StoredKeys,
                    resized |-> "none", preKeys |-> {}, preSize |-> 0,
                    afterInsert |->
                        IF last.op = "insert" /\ last.key = pKey
                        THEN [op |-> "insert", ret |-> last.ret, allocFail |-> last.allocFail,
                              sizeBefore |-> last.sizeBefore, wasStored |-> last.wasStored,
                              resized |-> last.resized]
                        ELSE NoInsert]
        /\ it' = NoIterator
        /\ spins' = 0
        /\ yielded' = <<>>
        /\ UNCHANGED <<mBucketCount, mLocks, threads>>

\* it = table.begin (): the call and the first iteration of its loop
Begin ==
    /\ it.state # "begin"
    /\ it' = IF mKeyCount = 0 THEN EndIterator ELSE BeginLoopBody(1)
    /\ spins' = IF it'.state = "begin" THEN 1 ELSE 0
    /\ yielded' = IF it'.state = "at" THEN <<Deref(it')>> ELSE <<>>
    /\ last' = [NoCall EXCEPT !.op = "begin"]
    /\ UNCHANGED <<tableVars, live, threads>>

\* a further iteration of begin()'s loop
BeginLoop ==
    /\ it.state = "begin"
    /\ it' = BeginLoopBody(spins + 1)
    /\ spins' = IF it'.state # "begin" THEN 0
                ELSE IF spins < MaxSpin THEN spins + 1 ELSE spins
    /\ yielded' = IF it'.state = "at" THEN <<Deref(it')>> ELSE <<>>
    /\ last' = [NoCall EXCEPT !.op = "begin"]
    /\ UNCHANGED <<tableVars, live, threads>>

\* ++it in a traversal that begin () started, followed by *it unless
\* it == end ()
Incr ==
    /\ it.state = "at"
    /\ last.op \in {"begin", "incr"}
    /\ it' = Increment(it)
    /\ yielded' = IF it'.state = "at" THEN Append(yielded, Deref(it')) ELSE yielded
    /\ last' = [NoCall EXCEPT !.op = "incr"]
    /\ UNCHANGED <<tableVars, spins, live, threads>>

\* ++it on an iterator that find () returned, or that is equal to end ()
IncrFound ==
    /\ it.state \in {"at", "end"}
    /\ ~(it.state = "at" /\ last.op \in {"begin", "incr"})
    /\ it' = Increment(it)
    /\ yielded' = IF it.state = "end" THEN yielded ELSE <<>>
    /\ last' = [NoCall EXCEPT !.op = "incr"]
    /\ UNCHANGED <<tableVars, spins, live, threads>>

\* find moves the node it found to the head of its aggregate node's list
Find_MoveToFront(pKey) ==
    LET f == find(pKey)
        nodes == AggrAt(f).nodePtr
    IN  /\ it.state # "begin"
        /\ it' = IF f.state = "at" THEN [f EXCEPT !.n = 1] ELSE f
        /\ mBucketArray' =
               IF f.state = "at"
               THEN [mBucketArray EXCEPT ![f.b].hashListHead[f.a].nodePtr =
                        <<nodes[f.n]>> \o RemoveAt(nodes, f.n)]
               ELSE mBucketArray
        /\ spins' = 0
        /\ yielded' = <<>>
        /\ last' = [NoCall EXCEPT !.op = "find", !.key = pKey, !.ret = (f # EndIterator)]
        /\ UNCHANGED <<mLocks, mBucketCount, mKeyCount, mAggregateCnt, live, threads>>

\* it = table.find (pKey)
Find(pKey) ==
    /\ it.state # "begin"
    /\ it' = find(pKey)
    /\ spins' = 0
    /\ yielded' = <<>>
    /\ last' = [NoCall EXCEPT !.op = "find", !.key = pKey, !.ret = (find(pKey) # EndIterator)]
    /\ UNCHANGED <<tableVars, live, threads>>

\* table.exists (pKey)
Exists(pKey) ==
    /\ it.state # "begin"
    /\ it' = NoIterator
    /\ spins' = 0
    /\ yielded' = <<>>
    /\ last' = [NoCall EXCEPT !.op = "exists", !.key = pKey, !.ret = exists(pKey)]
    /\ UNCHANGED <<tableVars, live, threads>>

\* table.size ()
Size ==
    /\ it.state # "begin"
    /\ it' = NoIterator
    /\ spins' = 0
    /\ yielded' = <<>>
    /\ last' = [NoCall EXCEPT !.op = "size", !.sizeBefore = size]
    /\ UNCHANGED <<tableVars, live, threads>>

\* it = table.end ()
End ==
    /\ it.state # "begin"
    /\ it' = EndIterator
    /\ spins' = 0
    /\ yielded' = <<>>
    /\ last' = [NoCall EXCEPT !.op = "end"]
    /\ UNCHANGED <<tableVars, live, threads>>

Next ==
    \/ \E k \in InsertKeys, failing \in AllocFailures : Insert(k, failing)
    \/ \E k \in EraseKeys : Erase(k)
    \/ Begin
    \/ BeginLoop
    \/ Incr

Spec == Init /\ [][Next]_vars

\* the table used through its whole public interface, the calls that only
\* read included
NextRead ==
    \/ \E k \in InsertKeys : Insert(k, "none")
    \/ \E k \in EraseKeys : Erase(k)
    \/ \E k \in InsertKeys : Find(k)
    \/ \E k \in InsertKeys : Exists(k)
    \/ Size
    \/ End
    \/ Begin
    \/ BeginLoop
    \/ Incr
    \/ IncrFound

SpecRead == Init /\ [][NextRead]_vars

(***************************************************************************)
(* Construction: the constructor with a bucket-count argument, in a build  *)
(* with or without concurrent mode, with either allocation of init ()      *)
(* succeeding or failing, followed by calls of initialized ().             *)
(***************************************************************************)
CtorBucketCounts == { Pow2(i) : i \in 0 .. MaxHintLog } \cup {DefaultBucketCount}

\* allocFail of a construction: the allocations of init () that failed
CtorAllocFail(arrayAllocOk, locksAllocOk) ==
    IF arrayAllocOk /\ locksAllocOk THEN "none"
    ELSE IF locksAllocOk THEN "array"
    ELSE IF arrayAllocOk THEN "locks"
    ELSE "array+locks"

InitCtor ==
    \E pBucketCount \in CtorBucketCounts, concurrentMode, arrayAllocOk, locksAllocOk \in BOOLEAN :
        /\ concurrentMode \/ locksAllocOk
        /\ mBucketCount = pBucketCount
        /\ mBucketArray = init(pBucketCount, concurrentMode, arrayAllocOk, locksAllocOk).arr
        /\ mLocks = init(pBucketCount, concurrentMode, arrayAllocOk, locksAllocOk).locks
        /\ mKeyCount = 0
        /\ mAggregateCnt = 0
        /\ it = NoIterator
        /\ spins = 0
        /\ yielded = <<>>
        /\ live = {}
        /\ last = [NoCall EXCEPT !.op = "construct",
                                 !.allocFail = CtorAllocFail(arrayAllocOk, locksAllocOk)]
        /\ threads = [t \in Threads |-> IdleThread]

\* table.initialized ()
Initialized ==
    /\ last.op \in {"construct", "initialized"}
    /\ last' = [last EXCEPT !.op = "initialized", !.ret = initialized]
    /\ UNCHANGED <<tableVars, it, spins, yielded, live, threads>>

NextCtor == Initialized

SpecCtor == InitCtor /\ [][NextCtor]_vars

\* a thread that is inside begin() keeps executing its loop
SpecFair == Spec /\ WF_vars(BeginLoop)

TypeOK ==
    /\ mBucketCount \in Nat \ {0}
    /\ DOMAIN mBucketArray = 0 .. (mBucketCount - 1)
    /\ mKeyCount \in Nat
    /\ it.state \in {"none", "begin", "at", "end"}

(***************************************************************************)
(* Tables constructed with the hints 4 and 32 and filled with keys of the  *)
(* hashes 8, 40 and 0: the hashes 8 and 40 share a bucket of a table of 4  *)
(* and of 32 buckets, and a table of 32 buckets is one resize away from    *)
(* the maximum of 256.                                                     *)
(***************************************************************************)
EdgeBucketCounts == {4, 32}

EdgeBulkKeys == { BulkKey(i) : i \in 1 .. MaxEdgeBulk }

\* a key whose hash differs from BulkHash by 32, and 0
EdgeFreeKeys == {BulkHash + 32, 0}

NumEdgeBulkStored == Cardinality(StoredKeys \cap EdgeBulkKeys)

\* the keys of hash BulkHash are inserted in ascending and erased in descending order
EdgeInsertKeys ==
    EdgeFreeKeys \cup { BulkKey(i) : i \in {NumEdgeBulkStored, NumEdgeBulkStored + 1} \cap (1 .. MaxEdgeBulk) }

EdgeEraseKeys == EdgeFreeKeys \cup { BulkKey(i) : i \in {NumEdgeBulkStored} \cap (1 .. MaxEdgeBulk) }

InitEdge ==
    /\ mBucketCount \in EdgeBucketCounts
    /\ mBucketArray = init(mBucketCount, FALSE, TRUE, TRUE).arr
    /\ mLocks = init(mBucketCount, FALSE, TRUE, TRUE).locks
    /\ mKeyCount = 0
    /\ mAggregateCnt = 0
    /\ it = NoIterator
    /\ spins = 0
    /\ yielded = <<>>
    /\ live = {}
    /\ last = NoCall
    /\ threads = [t \in Threads |-> IdleThread]

NextEdge ==
    \/ \E k \in EdgeInsertKeys : Insert(k, "none")
    \/ \E k \in EdgeEraseKeys : Erase(k)

SpecEdge == InitEdge /\ [][NextEdge]_vars

(***************************************************************************)
(* Concurrent mode: NumThreads threads call into one table built with      *)
(* AG_HASH_TABLE_MULTITHREADED_MODE. A call is two steps: the walk that    *)
(* reads the bucket count and the lists, and the step that writes through  *)
(* the pointer the walk ended on. No method of the table locks or unlocks  *)
(* an element of mLocks, so no step changes the locks held. Thread 1       *)
(* inserts the bulk keys one after the other, the other threads use the    *)
(* key 0.                                                                  *)
(***************************************************************************)
ConcFreeKey == 0

ConcKeys(t) ==
    IF t = 1
    THEN { BulkKey(i) : i \in {threads[t].ops + 1} \cap (1 .. NumBulk) }
    ELSE { k \in {ConcFreeKey} : threads[t].ops < MaxConcOps }

\* the call of thread th returns r
Returned(th, r) == [th EXCEPT !.pc = "idle", !.ret = r, !.ops = th.ops + 1]

\* live after a call (op, key) that returned r
LiveAfter(op, key, r) ==
    IF ~r THEN live
    ELSE IF op = "insert" THEN live \cup {key}
    ELSE IF op = "erase" THEN live \ {key}
    ELSE live

\* keyHash, bucketId and the walk over the bucket's aggregate nodes, as far
\* as all calls share it: the thread remembers the bucket array it read
\* (by its bucket count), the bucket and the aggregate node it stopped at
Walked(th, op, pKey) ==
    LET keyHash  == tHashFunc(pKey)
        bucketId == BucketOf(keyHash, mBucketCount)
    IN  [th EXCEPT !.pc = op, !.op = op, !.key = pKey, !.bucketCount = mBucketCount,
                   !.bucketId = bucketId,
                   !.aggr = AggrIndex(mBucketArray[bucketId].hashListHead, keyHash),
                   !.len = 0]

\* insert: the walk up to the vacant pointer the new node, or the new
\* aggregate node, will be written to. A duplicate ends the call here.
ConcInsertWalk(t, pKey) ==
    LET w    == Walked(threads[t], "insert", pKey)
        list == mBucketArray[w.bucketId].hashListHead
    IN  /\ threads[t].pc = "idle"
        /\ IF w.aggr # 0 /\ NodeIndex(list[w.aggr].nodePtr, pKey) # 0
           THEN threads' = [threads EXCEPT ![t] = Returned(w, FALSE)]
           ELSE threads' = [threads EXCEPT ![t] =
                               [w EXCEPT !.len = IF w.aggr = 0 THEN Len(list)
                                                 ELSE Len(list[w.aggr].nodePtr)]]
        /\ UNCHANGED <<tableVars, it, spins, yielded, live, last>>

\* the pointer a walk ended on still belongs to the table: the bucket array
\* is the one the walk read, and the list it ended in still reaches that far
PointerValid(th) ==
    /\ mBucketCount = th.bucketCount
    /\ LET list == mBucketArray[th.bucketId].hashListHead
       IN  IF th.aggr = 0 THEN th.op = "insert" /\ Len(list) >= th.len
           ELSE /\ th.aggr <= Len(list)
                /\ list[th.aggr].keyHash = tHashFunc(th.key)
                /\ AggrIndex(list, tHashFunc(th.key)) = th.aggr
                /\ Len(list[th.aggr].nodePtr) >= th.len

\* a write or read through a pointer into memory that was freed or moved
\* since the walk: the call returns either value without effect on the
\* table, or the process crashes
ConcUndefined(t) ==
    /\ \E outcome \in {"true", "false", "crash"} :
          /\ threads' = [threads EXCEPT ![t] =
                            IF outcome = "crash" THEN [@ EXCEPT !.pc = "crashed"]
                            ELSE Returned(@, outcome = "true")]
          /\ live' = IF outcome = "crash" THEN live
                     ELSE LiveAfter(threads[t].op, threads[t].key, outcome = "true")
    /\ UNCHANGED <<tableVars, it, spins, yielded, last>>

\* the bucket array after (*aggrElem) = newAggr or (*pListElem) = newNode
\* through the pointer of the walk, and the counters raised: what another
\* thread linked behind that pointer since the walk is cut off
LinkedThrough(th) ==
    LET bucket  == mBucketArray[th.bucketId]
        list    == bucket.hashListHead
        newAggr == [keyCount |-> 1, keyHash |-> tHashFunc(th.key), nodePtr |-> <<th.key>>]
    IN  IF th.aggr = 0
        THEN [mBucketArray EXCEPT ![th.bucketId] =
                 [keyCount          |-> bucket.keyCount + 1,
                  distinctHashCount |-> bucket.distinctHashCount + 1,
                  hashListHead      |-> Append(SubSeq(list, 1, th.len), newAggr)]]
        ELSE [mBucketArray EXCEPT ![th.bucketId] =
                 [bucket EXCEPT !.keyCount = bucket.keyCount + 1,
                                !.hashListHead[th.aggr] =
                                    [keyCount |-> list[th.aggr].keyCount + 1,
                                     keyHash  |-> list[th.aggr].keyHash,
                                     nodePtr  |-> Append(SubSeq(list[th.aggr].nodePtr, 1, th.len),
                                                         th.key)]]]

\* insert: the new node is linked and the counters are raised; the call
\* returns true unless the bucket now asks for a resize
ConcInsertLink(t) ==
    LET th   == threads[t]
        arr1 == LinkedThrough(th)
    IN  /\ th.pc = "insert"
        /\ IF PointerValid(th)
           THEN /\ mBucketArray' = arr1
                /\ mKeyCount' = mKeyCount + 1
                /\ mAggregateCnt' = IF th.aggr = 0 THEN mAggregateCnt + 1 ELSE mAggregateCnt
                /\ IF ResizeWanted(arr1[th.bucketId], mBucketCount)
                   THEN /\ threads' = [threads EXCEPT ![t] = [th EXCEPT !.pc = "resize"]]
                        /\ live' = live
                   ELSE /\ threads' = [threads EXCEPT ![t] = Returned(th, TRUE)]
                        /\ live' = LiveAfter("insert", th.key, TRUE)
                /\ UNCHANGED <<mLocks, mBucketCount, it, spins, yielded, last>>
           ELSE ConcUndefined(t)

\* insert: resize (mBucketCount * sResizeFactor); mLocks is left as it is
ConcResize(t) ==
    LET th == threads[t]
        r  == resize(mBucketArray, mBucketCount, mBucketCount * sResizeFactor, TRUE)
    IN  /\ th.pc = "resize"
        /\ mBucketArray' = r.arr
        /\ mBucketCount' = r.bucketCount
        /\ threads' = [threads EXCEPT ![t] = Returned(th, TRUE)]
        /\ live' = LiveAfter("insert", th.key, TRUE)
        /\ UNCHANGED <<mLocks, mKeyCount, mAggregateCnt, it, spins, yielded, last>>

\* erase: the walk to the aggregate node of the key's hash; without one
\* the call returns false
ConcEraseWalk(t, pKey) ==
    LET w == Walked(threads[t], "erase", pKey)
    IN  /\ threads[t].pc = "idle"
        /\ threads' = [threads EXCEPT ![t] = IF w.aggr = 0 THEN Returned(w, FALSE) ELSE w]
        /\ UNCHANGED <<tableVars, it, spins, yielded, live, last>>

\* erase: erase_util on the aggregate node's list, the counters, and the
\* removal of an aggregate node whose key count reached 0
ConcEraseUnlink(t) ==
    LET th == threads[t]
        r  == erase(mBucketArray, mKeyCount, mAggregateCnt, mBucketCount, th.key)
    IN  /\ th.pc = "erase"
        /\ IF PointerValid(th)
           THEN /\ mBucketArray' = r.arr
                /\ mKeyCount' = r.keyCount
                /\ mAggregateCnt' = r.aggCnt
                /\ threads' = [threads EXCEPT ![t] = Returned(th, r.ret)]
                /\ live' = LiveAfter("erase", th.key, r.ret)
                /\ UNCHANGED <<mLocks, mBucketCount, it, spins, yielded, last>>
           ELSE ConcUndefined(t)

\* find and exists: keyHash, bucketId and the head of the bucket's list
ConcFindEnter(t, op, pKey) ==
    /\ threads[t].pc = "idle"
    /\ op \in {"find", "exists"}
    /\ threads' = [threads EXCEPT ![t] = [Walked(@, op, pKey) EXCEPT !.aggr = 0]]
    /\ UNCHANGED <<tableVars, it, spins, yielded, live, last>>

\* find and exists: the walk over the aggregate nodes and the key nodes;
\* ret is find (key) != end (), or exists (key)
ConcFindWalk(t) ==
    LET th == threads[t]
    IN  /\ th.pc \in {"find", "exists"}
        /\ IF mBucketCount = th.bucketCount
           THEN /\ threads' = [threads EXCEPT ![t] =
                                  Returned(th, IF th.op = "find" THEN find(th.key) # EndIterator
                                               ELSE exists(th.key))]
                /\ UNCHANGED <<tableVars, it, spins, yielded, live, last>>
           ELSE ConcUndefined(t)

InitConc ==
    /\ mBucketCount = 1
    /\ mBucketArray = init(mBucketCount, TRUE, TRUE, TRUE).arr
    /\ mLocks = init(mBucketCount, TRUE, TRUE, TRUE).locks
    /\ mKeyCount = 0
    /\ mAggregateCnt = 0
    /\ it = NoIterator
    /\ spins = 0
    /\ yielded = <<>>
    /\ live = {}
    /\ last = NoCall
    /\ threads = [t \in Threads |-> IdleThread]

NextConc ==
    \/ \E t \in Threads : \E k \in ConcKeys(t) : ConcInsertWalk(t, k)
    \/ \E t \in Threads : ConcInsertLink(t)
    \/ \E t \in Threads : ConcResize(t)
    \/ \E t \in Threads \ {1} : \E k \in ConcKeys(t) : ConcEraseWalk(t, k)
    \/ \E t \in Threads : ConcEraseUnlink(t)
    \/ \E t \in Threads \ {1} : \E k \in ConcKeys(t), op \in {"find", "exists"} : ConcFindEnter(t, op, k)
    \/ \E t \in Threads : ConcFindWalk(t)

SpecConc == InitConc /\ [][NextConc]_vars

(***************************************************************************)
(* Concurrent mode, threads that insert into buckets of their own: thread  *)
(* t inserts keys of hash t into a table of CountBucketCount buckets, in a *)
(* build without AG_DBG_MODE.  ++mKeyCount on the plain uint64_t member is *)
(* a load and a store.                                                     *)
(***************************************************************************)
CountBucketCount == 8

CountKeys(t) == { t + i * HashModulus : i \in {threads[t].ops} \cap (0 .. (MaxConcOps - 1)) }

\* insert: the new node is linked in the thread's bucket and the bucket's
\* counters are raised; mKeyCount is loaded for ++mKeyCount
ConcCountLoad(t) ==
    LET th == threads[t]
    IN  /\ th.pc = "insert"
        /\ PointerValid(th)
        /\ mBucketArray' = LinkedThrough(th)
        /\ threads' = [threads EXCEPT ![t] = [th EXCEPT !.pc = "count", !.loaded = mKeyCount]]
        /\ UNCHANGED <<mLocks, mBucketCount, mKeyCount, mAggregateCnt, it, spins, yielded, live, last>>

\* insert: the incremented value is stored to mKeyCount, and the call
\* returns true unless the bucket asks for a resize
ConcCountStore(t) ==
    LET th == threads[t]
    IN  /\ th.pc = "count"
        /\ mKeyCount' = th.loaded + 1
        /\ IF ResizeWanted(mBucketArray[th.bucketId], mBucketCount)
           THEN /\ threads' = [threads EXCEPT ![t] = [th EXCEPT !.pc = "resize"]]
                /\ live' = live
           ELSE /\ threads' = [threads EXCEPT ![t] = Returned(th, TRUE)]
                /\ live' = LiveAfter("insert", th.key, TRUE)
        /\ UNCHANGED <<mBucketArray, mLocks, mBucketCount, mAggregateCnt, it, spins, yielded, last>>

InitCount ==
    /\ mBucketCount = CountBucketCount
    /\ mBucketArray = init(mBucketCount, TRUE, TRUE, TRUE).arr
    /\ mLocks = init(mBucketCount, TRUE, TRUE, TRUE).locks
    /\ mKeyCount = 0
    /\ mAggregateCnt = 0
    /\ it = NoIterator
    /\ spins = 0
    /\ yielded = <<>>
    /\ live = {}
    /\ last = NoCall
    /\ threads = [t \in Threads |-> IdleThread]

NextCount ==
    \/ \E t \in Threads : \E k \in CountKeys(t) : ConcInsertWalk(t, k)
    \/ \E t \in Threads : ConcCountLoad(t)
    \/ \E t \in Threads : ConcCountStore(t)

SpecCount == InitCount /\ [][NextCount]_vars

(***************************************************************************)
(* Properties                                                              *)
(***************************************************************************)
RECURSIVE SumBucketKeyCount(_, _)
SumBucketKeyCount(arr, n) ==
    IF n = 0 THEN 0 ELSE arr[n - 1].keyCount + SumBucketKeyCount(arr, n - 1)

\* C1: size() equals the number of keys currently stored: the number of key
\* nodes, and the number of keys inserted successfully and not erased since.
C1_SizeIsStoredCount ==
    /\ size = Cardinality(KeyNodes)
    /\ size = Cardinality(live)

\* C2: exists(k) is true exactly for the keys that were inserted
\* successfully and have not been erased since.
C2_ExistsIffLive == \A k \in Keys : exists(k) <=> k \in live

\* C3: erase(k) returns true iff k was stored right before the call; when it
\* returns true k is no longer stored and size() is one less.
C3_EraseTrueIffStored ==
    last.op = "erase" =>
        /\ last.ret <=> last.wasStored
        /\ last.ret => (last.key \notin StoredKeys /\ size = last.sizeBefore - 1)

\* C4: erase(k) of a key that is not stored returns false and leaves size()
\* as it was.
C4_EraseAbsent ==
    (last.op = "erase" /\ ~last.wasStored) => (~last.ret /\ size = last.sizeBefore)

\* C5: unless an allocation fails, insert(k) returns true iff k was not
\* stored before; if k was stored it returns false and the counters, the
\* buckets and the aggregate count are as before.
C5_InsertTrueIffAbsent ==
    [][last'.op = "insert" =>
         /\ last'.allocFail \notin {"aggr", "node"} => (last'.ret <=> last'.key \notin StoredKeys)
         /\ last'.key \in StoredKeys => (~last'.ret /\ UNCHANGED tableVars)]_vars

C5_Witness ==
    /\ last.op = "insert" /\ last.wasStored /\ ~last.ret
    /\ mKeyCount > 1

\* C6: no two key nodes of the table hold equal keys.
C6_NoDuplicates ==
    \A p, q \in KeyNodes : tEquals(KeyAt(p), KeyAt(q)) => p = q

C6_Witness ==
    /\ last.op = "insert" /\ last.wasStored /\ ~last.ret
    /\ \E p, q \in KeyNodes : p # q /\ p[1] = q[1] /\ p[2] = q[2]

\* C7: the table's key count is the sum of the buckets' key counts, and each
\* bucket's key count is the sum of the key counts of its aggregate nodes.
C7_CountLayersAgree ==
    /\ mKeyCount = SumBucketKeyCount(mBucketArray, mBucketCount)
    /\ \A b \in BucketIds : mBucketArray[b].keyCount = SumKeyCount(mBucketArray[b].hashListHead)

C7_Witness ==
    /\ last.op = "insert" /\ last.resized = "ok"
    /\ \E b \in BucketIds : Len(mBucketArray[b].hashListHead) > 1

C9_ResizePreservesMembership ==
    (last.op = "insert" /\ last.resized = "ok") =>
        /\ \A k \in last.preKeys : exists(k) /\ find(k).state = "at" /\ tEquals(Deref(find(k)), k)
        /\ size = last.preSize

C9_Witness ==
    /\ last.op = "insert" /\ last.resized = "ok"
    /\ Cardinality(last.preKeys) > sNumKeysAllowed
    /\ \E j, k \in last.preKeys :
          BucketOf(tHashFunc(j), mBucketCount) # BucketOf(tHashFunc(k), mBucketCount)

\* C10: a traversal from begin() to end() yields exactly size() keys, all
\* distinct, and they are the keys currently stored.
C10_IterationComplete ==
    (it.state = "end" /\ last.op \in {"begin", "incr"}) =>
        /\ Len(yielded) = size
        /\ \A i, j \in 1 .. Len(yielded) : yielded[i] = yielded[j] => i = j
        /\ { yielded[i] : i \in 1 .. Len(yielded) } = StoredKeys

\* C11: begin() terminates: a call of begin() that has started returns, also
\* on a table that is not empty and stores no key with hash value 0.
C11_BeginTerminates == (it.state = "begin") ~> (it.state # "begin")

\* the hash values that have an aggregate node in the table
HashesPresent == { tHashFunc(k) : k \in StoredKeys }

\* the iterator on the first key node of the aggregate node with the smallest
\* hash value present
FirstOfSmallestHash ==
    IteratorAt(getHashAggr(CHOOSE h \in HashesPresent : \A other \in HashesPresent : h <= other))

\* C12: begin() returns end() when the table is empty, and otherwise an
\* iterator on the first key node of the aggregate node with the smallest
\* hash value present.
C12_BeginAtSmallestHash ==
    last.op = "begin" =>
        it = IF StoredKeys = {} THEN EndIterator ELSE FirstOfSmallestHash

\* C13: the keys a traversal visits from begin() on are in non-decreasing
\* order of their hash values, whatever the order of the buckets and of the
\* aggregate nodes within a bucket.
C13_TraversalInHashOrder ==
    \A i, j \in 1 .. Len(yielded) : i < j => tHashFunc(yielded[i]) <= tHashFunc(yielded[j])

C13_Witness ==
    /\ it.state = "end" /\ last.op = "incr"
    /\ \E i, j \in 1 .. Len(yielded) :
          /\ i < j
          /\ BucketOf(tHashFunc(yielded[i]), mBucketCount) > BucketOf(tHashFunc(yielded[j]), mBucketCount)
    /\ \E b \in BucketIds : \E p, q \in 1 .. Len(mBucketArray[b].hashListHead) :
          /\ p < q
          /\ mBucketArray[b].hashListHead[p].keyHash > mBucketArray[b].hashListHead[q].keyHash

\* C14: find(k) returns an iterator that differs from end() and dereferences
\* to a key equal to k when k is stored, and end() when k is not stored; in
\* every state exists(k) is true exactly when find(k) differs from end().
C14_FindIffStored ==
    /\ \A k \in Keys :
          /\ k \in StoredKeys => (find(k) # EndIterator /\ find(k).state = "at" /\ tEquals(Deref(find(k)), k))
          /\ k \notin StoredKeys => find(k) = EndIterator
          /\ exists(k) <=> find(k) # EndIterator
    /\ last.op = "find" => (it = find(last.key) /\ (last.ret <=> last.key \in StoredKeys))
    /\ last.op = "exists" => (last.ret <=> find(last.key) # EndIterator)

C14_Witness ==
    /\ last.op = "find" /\ last.ret
    /\ it.state = "at" /\ it.n > 1 /\ tEquals(Deref(it), last.key)
    /\ mBucketCount \notin InitBucketCounts
    /\ \E j \in Keys : tHashFunc(j) = tHashFunc(last.key) /\ j \notin StoredKeys /\ ~exists(j)

\* C15: find(k), exists(k), begin(), end() and size() leave the table as it
\* was: the stored keys, the table's, the buckets' and the aggregate nodes'
\* counts, the bucket count and the contents of every bucket.
C15_ReadersLeaveTableUnchanged ==
    [][last'.op \in {"find", "exists", "begin", "end", "size"} =>
          /\ UNCHANGED tableVars
          /\ StoredKeys' = StoredKeys]_vars

C15_Witness ==
    /\ last.op = "find" /\ last.ret
    /\ it.state = "at" /\ it.n > 1 /\ it.a > 1
    /\ mKeyCount > sNumKeysAllowed

\* C16: in every reachable state, directly after construction with a
\* bucket-count argument included, get_bucket_count() is at most
\* get_max_bucket_count().
C16_BucketCountAtMostMax == get_bucket_count <= get_max_bucket_count

IsPowerOfTwo(n) == \E i \in 0 .. 24 : n = Pow2(i)

\* C17: a table constructed with the default bucket count or a power-of-two
\* hint has a power of two as its bucket count in every reachable state, and
\* hash & (bucketCount - 1) is a valid bucket index for every hash value.
C17_BucketCountPowerOfTwo ==
    /\ IsPowerOfTwo(mBucketCount)
    /\ \A h \in 0 .. (HashModulus - 1) : BucketOf(h, mBucketCount) \in 0 .. (mBucketCount - 1)
    /\ DOMAIN mBucketArray = 0 .. (mBucketCount - 1)

C17_Witness ==
    /\ last.op = "insert" /\ last.resized = "ok"
    /\ mBucketCount = sResizeFactor
    /\ \E k \in StoredKeys : BucketOf(tHashFunc(k), mBucketCount) # 0

\* no aggregate node without key nodes is linked in a bucket
NoEmptyAggregate ==
    \A b \in BucketIds : \A i \in 1 .. Len(mBucketArray[b].hashListHead) :
        mBucketArray[b].hashListHead[i].nodePtr # <<>>

\* C18: when the allocation of the aggregate node or of the key node fails
\* in insert(k), insert returns false and the table is as before the call:
\* k is not stored, size(), the buckets with their counts and the bucket
\* count are unchanged, and no aggregate node without keys is linked.
C18_FailedInsertLeavesTable ==
    [][(last'.op = "insert" /\ last'.allocFail \in {"aggr", "node"}) =>
          /\ ~last'.ret
          /\ UNCHANGED tableVars
          /\ last'.key \notin StoredKeys'
          /\ size' = size
          /\ NoEmptyAggregate']_vars

C18_Witness ==
    /\ last.op = "insert" /\ last.allocFail = "node" /\ ~last.ret
    /\ getHashAggr(tHashFunc(last.key)) = NullAggr
    /\ mBucketArray[BucketOf(tHashFunc(last.key), mBucketCount)].distinctHashCount > 0

C20_InitializedIffAllocated ==
    last.op = "initialized" => (last.ret <=> last.allocFail = "none")

C20_Witness ==
    /\ last.op = "initialized" /\ ~last.ret
    /\ mBucketArray # NullArray
    /\ mLocks = NullLocks


(***************************************************************************)
(* Concurrent mode                                                         *)
(***************************************************************************)
\* thread t is inside a call that reads or writes bucket b
InProgressOn(t, b) ==
    /\ threads[t].pc \in {"insert", "erase", "resize", "find", "exists"}
    /\ threads[t].bucketId = b

\* thread t is inside a call that writes bucket b
WritingOn(t, b) ==
    /\ threads[t].pc \in {"insert", "erase", "resize"}
    /\ threads[t].bucketId = b

\* C21: a thread that is between the walk and the return of an insert or an
\* erase holds the exclusive lock of the key's bucket, and no other thread
\* is inside a call on that bucket.
C21_WritersHoldExclusiveLock ==
    \A t \in Threads :
        threads[t].pc \in {"insert", "erase"} =>
            /\ <<threads[t].bucketId, t>> \in mLocks.exclusive
            /\ \A u \in Threads \ {t} : ~InProgressOn(u, threads[t].bucketId)

\* C22: a thread that is inside find or exists holds the shared lock of the
\* key's bucket, and no other thread is inside an insert or an erase on that
\* bucket (other readers may be).
C22_ReadersHoldSharedLock ==
    \A t \in Threads :
        threads[t].pc \in {"find", "exists"} =>
            /\ <<threads[t].bucketId, t>> \in mLocks.shared
            /\ \A u \in Threads \ {t} : ~WritingOn(u, threads[t].bucketId)

\* C23: when two threads have each made one insert, of different keys of the
\* same bucket, into the empty table and no other call was made, both calls
\* returned true, both keys are stored and the key counts have grown by two.
C23_TwoInsertsSerialized ==
    \A t, u \in Threads :
        ( /\ t # u
          /\ \A v \in Threads : threads[v].pc = "idle" /\ threads[v].ops = (IF v \in {t, u} THEN 1 ELSE 0)
          /\ threads[t].op = "insert" /\ threads[u].op = "insert"
          /\ threads[t].key # threads[u].key
          /\ threads[t].bucketId = threads[u].bucketId )
        => /\ threads[t].ret /\ threads[u].ret
           /\ StoredKeys = {threads[t].key, threads[u].key}
           /\ Cardinality(KeyNodes) = 2
           /\ mBucketArray[threads[t].bucketId].keyCount = 2
           /\ mKeyCount = 2

\* C24: the lock array of a table in concurrent mode has as many locks as
\* the table has buckets.
C24_OneLockPerBucket ==
    mLocks.state = "array" => mLocks.count = mBucketCount

\* C25: while a thread is inside resize, no other thread is inside find,
\* exists, insert or erase.
C25_ResizeIsExclusive ==
    \A t \in Threads :
        threads[t].pc = "resize" =>
            \A u \in Threads \ {t} : threads[u].pc \in {"idle", "crashed"}

(***************************************************************************)
(* Bucket of a key, counters, resize condition                             *)
(***************************************************************************)
\* bucket b of arr has a key-node with key pKey
HoldsKey(arr, b, pKey) ==
    /\ b \in DOMAIN arr
    /\ \E a \in 1 .. Len(arr[b].hashListHead) :
          \E n \in 1 .. Len(arr[b].hashListHead[a].nodePtr) :
              arr[b].hashListHead[a].nodePtr[n] = pKey

\* C26: after insert (k) returned true for a key that was not
\* stored, k is in the bucket get_bucket_of_key (k) named before the call.
C26_BucketOfKeyBeforeInsert ==
    [][(last'.op = "insert" /\ last'.ret /\ ~last'.wasStored)
         => HoldsKey(mBucketArray', get_bucket_of_key(last'.key), last'.key)]_vars

\* C27: the keyCount of every aggregate node is the number of key-nodes in
\* its list.
C27_AggrKeyCountIsListLength ==
    \A b \in BucketIds :
        \A a \in 1 .. Len(mBucketArray[b].hashListHead) :
            mBucketArray[b].hashListHead[a].keyCount = Len(mBucketArray[b].hashListHead[a].nodePtr)

\* the counters of the key's bucket after a successful insert, before the
\* resize check, computed from the bucket before the call
DistinctAfterInsert(pKey) ==
    LET bucket == mBucketArray[get_bucket_of_key(pKey)]
    IN  bucket.distinctHashCount
          + (IF AggrIndex(bucket.hashListHead, tHashFunc(pKey)) = 0 THEN 1 ELSE 0)

KeysAfterInsert(pKey) == mBucketArray[get_bucket_of_key(pKey)].keyCount + 1

\* C28: an insert that returned true has multiplied the bucket count by 8
\* if, with the key counted, the key's bucket has more than 1 distinct hash
\* and more than 16 keys and 8 times the bucket count is at most the
\* maximum; otherwise it has left the bucket count as it was.
C28_ResizeExactlyWhen ==
    [][(last'.op = "insert" /\ last'.ret)
         => IF /\ DistinctAfterInsert(last'.key) > 1
               /\ KeysAfterInsert(last'.key) > 16
               /\ mBucketCount * 8 <= get_max_bucket_count
            THEN mBucketCount' = mBucketCount * 8
            ELSE mBucketCount' = mBucketCount]_vars

\* C29: an insert that returned true and left the key's bucket with one
\* distinct hash has not called resize and has left the bucket count as it
\* was, however many keys the bucket holds.
C29_OneHashNeverResizes ==
    [][(last'.op = "insert" /\ last'.ret /\ DistinctAfterInsert(last'.key) = 1)
         => /\ last'.resized = "none"
            /\ mBucketCount' = mBucketCount]_vars

\* more keys than sNumKeysAllowed, all of one hash, after an insert that
\* stored one of them without a resize
C29_Witness ==
    /\ last.op = "insert" /\ last.ret /\ last.resized = "none"
    /\ mBucketArray[get_bucket_of_key(last.key)].distinctHashCount = 1
    /\ mBucketArray[get_bucket_of_key(last.key)].keyCount > sNumKeysAllowed
    /\ mKeyCount = mBucketArray[get_bucket_of_key(last.key)].keyCount
    /\ mBucketCount \in EdgeBucketCounts

\* C30: no two aggregate nodes of one bucket have the same keyHash.
C30_AggrHashesDistinctInBucket ==
    \A b \in BucketIds :
        \A i, j \in 1 .. Len(mBucketArray[b].hashListHead) :
            i # j => mBucketArray[b].hashListHead[i].keyHash # mBucketArray[b].hashListHead[j].keyHash

\* a resize has just moved two aggregate nodes into one bucket
C30_Witness ==
    /\ last.op = "insert" /\ last.resized = "ok"
    /\ \E b \in BucketIds : Len(mBucketArray[b].hashListHead) >= 2

(***************************************************************************)
(* Aggregate nodes of a bucket                                             *)
(***************************************************************************)
RECURSIVE SumDistinctHashCount(_, _)
SumDistinctHashCount(arr, n) ==
    IF n = 0 THEN 0 ELSE arr[n - 1].distinctHashCount + SumDistinctHashCount(arr, n - 1)

\* C31: the distinctHashCount of every bucket is the number of aggregate
\* nodes in its list, and get_aggregate_count () is the sum of the
\* distinctHashCount of all buckets and the number of distinct hash values
\* of the stored keys.
C31_DistinctHashCountIsAggrCount ==
    /\ \A b \in BucketIds : mBucketArray[b].distinctHashCount = Len(mBucketArray[b].hashListHead)
    /\ get_aggregate_count = SumDistinctHashCount(mBucketArray, mBucketCount)
    /\ get_aggregate_count = Cardinality(HashesPresent)

\* several hashes in a table of more than one bucket, after an erase that
\* removed the last key of another hash
C31_Witness ==
    /\ last.op = "erase" /\ last.ret
    /\ tHashFunc(last.key) \notin HashesPresent
    /\ mBucketCount > 1
    /\ get_aggregate_count >= 2
    /\ \E b \in BucketIds : mBucketArray[b].distinctHashCount >= 2

\* C32: every aggregate node linked in a bucket has a keyCount of at least
\* 1 and a key list that is not empty; an erase that leaves no key of the
\* hash of its key has left no aggregate node of that hash either.
C32_NoAggregateWithoutKeys ==
    /\ \A b \in BucketIds : \A a \in 1 .. Len(mBucketArray[b].hashListHead) :
          /\ mBucketArray[b].hashListHead[a].keyCount >= 1
          /\ Len(mBucketArray[b].hashListHead[a].nodePtr) >= 1
    /\ \A h \in 0 .. (HashModulus - 1) : getHashAggr(h) # NullAggr => h \in HashesPresent

\* an erase has removed the only key of an aggregate node from a bucket that
\* still has another aggregate node
C32_Witness ==
    /\ last.op = "erase" /\ last.ret /\ last.wasStored
    /\ getHashAggr(tHashFunc(last.key)) = NullAggr
    /\ mBucketArray[get_bucket_of_key(last.key)].hashListHead # <<>>

\* C33: every aggregate node is linked in the bucket that its keyHash
\* selects under the current bucket count.
C33_AggrInBucketOfItsHash ==
    \A b \in BucketIds : \A a \in 1 .. Len(mBucketArray[b].hashListHead) :
        BitAnd(mBucketArray[b].hashListHead[a].keyHash, mBucketCount - 1) = b

\* a resize has just distributed aggregate nodes over the first bucket and
\* another one
C33_Witness ==
    /\ last.op = "insert" /\ last.resized = "ok"
    /\ mBucketArray[0].hashListHead # <<>>
    /\ \E b \in BucketIds \ {0} : mBucketArray[b].hashListHead # <<>>

(***************************************************************************)
(* What insert and erase change                                            *)
(***************************************************************************)
\* the counters of every bucket but b are after the step what they were
OtherBucketCountsUnchanged(b) ==
    \A c \in BucketIds \ {b} :
        /\ mBucketArray'[c].keyCount = mBucketArray[c].keyCount
        /\ mBucketArray'[c].distinctHashCount = mBucketArray[c].distinctHashCount

\* C34: an insert that returned true without resizing the table has raised
\* the keyCount of the key's bucket by 1, its distinctHashCount by 1 if the
\* key's hash had no aggregate node in the bucket and by 0 if it had one,
\* and has left both counters of every other bucket as they were.
C34_InsertChangesOneBucket ==
    [][(last'.op = "insert" /\ last'.ret /\ last'.resized # "ok")
         => /\ mBucketArray'[get_bucket_of_key(last'.key)].keyCount = KeysAfterInsert(last'.key)
            /\ mBucketArray'[get_bucket_of_key(last'.key)].distinctHashCount
                 = DistinctAfterInsert(last'.key)
            /\ OtherBucketCountsUnchanged(get_bucket_of_key(last'.key))]_vars

\* an insert without resize into an aggregate node that had a key, in a
\* table where another bucket holds keys too
C34_Witness ==
    /\ last.op = "insert" /\ last.ret /\ last.resized = "none"
    /\ Len(AggrAt(getHashAggr(tHashFunc(last.key))).nodePtr) >= 2
    /\ \E c \in BucketIds \ {get_bucket_of_key(last.key)} : mBucketArray[c].keyCount >= 1

\* C35: an erase that returned true has lowered the keyCount of the key's
\* bucket by 1, its distinctHashCount by 1 if the key was the only key of
\* its aggregate node and by 0 otherwise, and has left both counters of
\* every other bucket as they were.
C35_EraseChangesOneBucket ==
    [][(last'.op = "erase" /\ last'.ret)
         => LET b    == get_bucket_of_key(last'.key)
                list == mBucketArray[b].hashListHead
                i    == AggrIndex(list, tHashFunc(last'.key))
                wasLastKey == i # 0 /\ list[i].nodePtr = <<last'.key>>
            IN  /\ mBucketArray'[b].keyCount = mBucketArray[b].keyCount - 1
                /\ mBucketArray'[b].distinctHashCount
                     = mBucketArray[b].distinctHashCount - (IF wasLastKey THEN 1 ELSE 0)
                /\ OtherBucketCountsUnchanged(b)]_vars

\* C37: erase (k) leaves exists (j) as it was for every key j other than k.
C37_EraseKeepsOtherKeys ==
    [][last'.op = "erase"
         => \A j \in Keys \ {last'.key} :
                ExistsIn(mBucketArray', mBucketCount', j) = exists(j)]_vars

(***************************************************************************)
(* operator++, bucket count                                                *)
(***************************************************************************)
\* the hashes present in the table that are greater than h
HashesAbove(h) == { g \in HashesPresent : g > h }

\* C36: ++it moves an iterator on a key node with a successor in its
\* aggregate node to that successor; from the last key node of the aggregate
\* node of hash h it moves to the first key node of the aggregate node of the
\* smallest hash above h that is present, and to end () when none is; an
\* iterator equal to end () stays as it is.
C36_IncrementMovesToNext ==
    [][last'.op = "incr"
         => IF it.state # "at" THEN it' = it
            ELSE IF it.n < Len(AggrAt(it).nodePtr)
                 THEN it' = [it EXCEPT !.n = it.n + 1]
            ELSE IF HashesAbove(AggrAt(it).keyHash) = {} THEN it' = EndIterator
            ELSE /\ it'.state = "at"
                 /\ it'.n = 1
                 /\ \A g \in HashesAbove(AggrAt(it).keyHash) :
                        AggrAt(it').keyHash <= g
                 /\ AggrAt(it').keyHash \in HashesAbove(AggrAt(it).keyHash)]_vars

\* ++it has moved the iterator to the first key node of an aggregate node
\* in a bucket other than the first, past the aggregate nodes of smaller hash
C36_Witness ==
    /\ last.op = "incr"
    /\ it.state = "at" /\ it.n = 1 /\ it.b # 0
    /\ \E h \in HashesPresent : h < AggrAt(it).keyHash

\* C39: a step that changes the bucket count is an insert that returns
\* true and multiplies the count by 8; no other call changes it.
C39_BucketCountOnlyTimesEight ==
    [][mBucketCount' # mBucketCount
         => /\ last'.op = "insert" /\ last'.ret
            /\ mBucketCount' = mBucketCount * 8
            /\ mBucketCount' > mBucketCount]_vars

\* after a resize by an insert, calls of erase, find, exists, begin or a
\* failed insert have left the bucket count at 8 times the initial one
C39_Witness ==
    /\ mBucketCount = 8 * 1
    /\ last.op \in {"erase", "find", "exists", "begin"} \/ (last.op = "insert" /\ ~last.ret)
    /\ mKeyCount <= sNumKeysAllowed

(***************************************************************************)
(* Concurrent inserts into different buckets                               *)
(***************************************************************************)
\* C38: when no thread is inside a call, after inserts of distinct keys by
\* several threads into buckets of their own, size () is the number of
\* inserts that returned true.
C38_NoKeyCountUpdateLost ==
    (\A t \in Threads : threads[t].pc = "idle") => size = Cardinality(live)

====
